---- MODULE Spec2Model ----
(***************************************************************************)
(* Strong Birthday Problem: the direct inclusion-exclusion formula, the    *)
(* occupancy recurrence T (memoized and bottom-up) and the associated      *)
(* Stirling recurrence S (memoized and bottom-up), as five Python modules  *)
(* of which one is loaded per process.                                     *)
(*                                                                         *)
(* Numbers: every mpf value the modelled range produces is an integer      *)
(* below 2^53, which mpmath represents exactly at any precision, so mpf    *)
(* values are modelled as exact integers and a returned quotient as the    *)
(* exact rational [num, den].                                              *)
(***************************************************************************)
EXTENDS Integers, Sequences, FiniteSets, TLC

\* ------------------------------------------------------------------ bounds
MaxM == 3          \* largest number of days tried
MaxN == 4          \* largest number of people tried
MaxDepth == 24     \* stands for sys.setrecursionlimit(10000), scaled down
FloatMinExp == 3   \* the smallest positive float is 2^-FloatMinExp: 1074 for
                   \* Python's binary64 floats, scaled down

\* --------------------------------------------------------------- constants
DPS == 1000               \* mp.dps = 1000
LibraryDefaultDps == 15   \* mpmath's precision when mp.dps is never assigned

Modules == {"sbp_implementation", "sbp_r1_recurrence_memoization",
            "sbp_r1_recurrence_bottomup", "sbp_r3_assoc_stirling_memoization",
            "sbp_r3_assoc_stirling_bottomup"}

\* the module that computes in Python floats
FloatModules == {"sbp_r2_recurrence_bottomup_float"}

VARIABLES loaded,   \* the module this process has imported, or "none"
          dps,      \* mp.dps, the process-wide decimal precision
          memo,     \* the memo dictionary of the current top-level call
          frame,    \* the locals of the function that is running, or Idle
          res       \* what the last finished call returned: [fn, args, out]

vars == <<loaded, dps, memo, frame, res>>

\* ---------------------------------------------------- the Numeric Kernel
RECURSIVE power(_, _)
power(b, e) == IF e = 0 THEN 1 ELSE b * power(b, e - 1)

RECURSIVE factorial(_)
factorial(j) == IF j = 0 THEN 1 ELSE j * factorial(j - 1)

\* x (x-1) ... (x-j+1), j >= 0
RECURSIVE falling(_, _)
falling(x, j) == IF j = 0 THEN 1 ELSE x * falling(x - 1, j - 1)

\* binomial(x, j) for an integer j >= 0 and any integer x (generalised for x < 0)
binomial(x, j) == falling(x, j) \div factorial(j)

\* a Python dict
EmptyDict == [x \in {} |-> 0]

\* m * n written for m ** n: a mutant of Quotient
QuotientTimes(sum, m, n) == [kind |-> "value", num |-> sum, den |-> m * n]

\* sum / m^n as an exact rational; m # 0
Quotient(sum, m, n) ==
    IF n >= 0 THEN [kind |-> "value", num |-> sum, den |-> power(m, n)]
              ELSE [kind |-> "value", num |-> sum * power(m, 0 - n), den |-> 1]

\* range(a, b)
range(a, b) == {x \in a .. (b - 1) : TRUE}

\* the accumulation loops: the sum of f[x] over the domain of f
RECURSIVE SumOver(_)
SumOver(f) ==
    IF DOMAIN f = {} THEN 0
    ELSE LET x == CHOOSE y \in DOMAIN f : TRUE
         IN f[x] + SumOver([y \in DOMAIN f \ {x} |-> f[y]])

\* ------------------------------------------- sbp_implementation.py: prob
\* the omitted sign (-1)^(j-k): a mutant of sign
signDropped(j, k) == 1

sign(j, k) == IF (j - k) % 2 = 0 THEN 1 ELSE 0 - 1

\* m^(n-j) written for (m-j)^(n-j): a mutant of power_term
power_termNoSubtract(m, n, j) == IF n - j > 0 THEN power(m, n - j) ELSE 1

power_term(m, n, j) == IF n - j > 0 THEN power(m - j, n - j) ELSE 1

term(m, n, k, j) ==
    sign(j, k) * binomial(j, k) * binomial(m, j) * binomial(n, j)
        * factorial(j) * power_term(m, n, j)

sum_result(m, n, k) == SumOver([j \in range(k, n + 1) |-> term(m, n, k, j)])

prob(m, n, k) == Quotient(sum_result(m, n, k), m, n)

\* --------------------------- sbp_r1_recurrence_memoization.py: T, prob_r1
\* n <= 2j+k written for n < 2j+k: a mutant of InvalidT
InvalidTOffByOne(j, k, n, m) == j < 0 \/ k < 0 \/ n <= 2 * j + k \/ m < j + k

\* the test m < j+k left out: a mutant of InvalidT
InvalidTNoDayBound(j, k, n, m) == j < 0 \/ k < 0 \/ n < 2 * j + k

\* the validity test of T
InvalidT(j, k, n, m) == j < 0 \/ k < 0 \/ n < 2 * j + k \/ m < j + k

\* the lookup left out: a mutant of in_memo
in_memoNever(key, d) == FALSE

\* key in memo
in_memo(key, d) == key \in DOMAIN d

\* T(j, k, n, m, memo) on the dictionary d: the value returned, the
\* dictionary as the call leaves it, and the keys the call assigned
\* (memo[key] = result), in the order of the assignments
RECURSIVE T(_, _, _, _, _)
T(j, k, n, m, d) ==
    LET key == <<j, k, n, m>> IN
    IF in_memo(key, d) THEN [val |-> d[key], memo |-> d, writes |-> <<>>]
    ELSE IF InvalidT(j, k, n, m) THEN [val |-> 0, memo |-> d, writes |-> <<>>]
    ELSE IF j = 0 /\ k = 0 /\ n = 0 THEN [val |-> 1, memo |-> d, writes |-> <<>>]
    ELSE LET r1 == T(j, k, n - 1, m, d)
             r2 == T(j - 1, k + 1, n - 1, m, r1.memo)
             r3 == T(j, k - 1, n - 1, m, r2.memo)
             result == j * r1.val + (k + 1) * r2.val + (m - j - k + 1) * r3.val
         IN [val |-> result, memo |-> (key :> result) @@ r3.memo,
             writes |-> r1.writes \o r2.writes \o r3.writes \o <<key>>]

\* the loop of prob_r1 from j on: the sum N and the dictionary after it
RECURSIVE prob_r1_loop(_, _, _, _, _)
prob_r1_loop(j, max_j, n, m, d) ==
    IF j > max_j THEN [val |-> 0, memo |-> d]
    ELSE LET t == T(j, 0, n, m, d)
             rest == prob_r1_loop(j + 1, max_j, n, m, t.memo)
         IN [val |-> t.val + rest.val, memo |-> rest.memo]

prob_r1(m, n) == Quotient(prob_r1_loop(1, n \div 2, n, m, EmptyDict).val, m, n)

\* ------------------------------ sbp_r1_recurrence_bottomup.py: T_bottomup
min(a, b) == IF a < b THEN a ELSE b

\* the value of d at key, an absent key counting as 0
Get(d, key) == IF key \in DOMAIN d THEN d[key] ELSE 0

\* the recurrence applied to prev for one (j, k)
resultT(prev, j, k, m_int) ==
      (IF <<j, k>> \in DOMAIN prev THEN j * prev[<<j, k>>] ELSE 0)
    + (IF j > 0 /\ <<j - 1, k + 1>> \in DOMAIN prev
          THEN (k + 1) * prev[<<j - 1, k + 1>>] ELSE 0)
    + (IF k > 0 /\ <<j, k - 1>> \in DOMAIN prev
          THEN (m_int - j - k + 1) * prev[<<j, k - 1>>] ELSE 0)

\* one iteration of the loop over n: the dictionary curr built from prev
currT(prev, n, m_int) ==
    LET max_k == min(n, m_int)
        max_j == n \div 2
        kept == {p \in range(0, max_j + 1) \X range(0, max_k + 1) :
                    /\ ~(n < 2 * p[1] + p[2] \/ m_int < p[1] + p[2])
                    /\ resultT(prev, p[1], p[2], m_int) # 0}
    IN [p \in kept |-> resultT(prev, p[1], p[2], m_int)]

\* the loop of T_bottomup from n on; what is returned is curr
RECURSIVE T_bottomup_loop(_, _, _, _, _)
T_bottomup_loop(n, n_target, m_int, prev, curr) ==
    IF n > n_target THEN curr
    ELSE LET c == currT(prev, n, m_int)
         IN T_bottomup_loop(n + 1, n_target, m_int, c, c)

T_bottomup(n_target, m) ==
    T_bottomup_loop(1, n_target, m, <<0, 0>> :> 1, EmptyDict)

prob_r1_bottomup(m, n) ==
    LET T_values == T_bottomup(n, m)
        N == SumOver([j \in {i \in range(1, n \div 2 + 1) : <<i, 0>> \in DOMAIN T_values}
                        |-> T_values[<<j, 0>>]])
    IN Quotient(N, m, n)

\* ------------------ sbp_r3_assoc_stirling_memoization.py: assoc_stirling
InvalidS(n, k) == (n <= 0 /\ k > 0) \/ (n > 0 /\ k <= 0) \/ n < 2 * k

\* assoc_stirling(n, k, memo) on the dictionary d, entered at call depth
\* depth: the value returned or the RecursionError raised (err), the
\* dictionary as the call leaves it, and the keys the call assigned
\* (memo[(n, k)] = result), in the order of the assignments
RECURSIVE assoc_stirling(_, _, _, _)
assoc_stirling(n, k, d, depth) ==
    IF depth > MaxDepth THEN [val |-> 0, memo |-> d, err |-> TRUE, writes |-> <<>>]
    ELSE IF in_memo(<<n, k>>, d)
        THEN [val |-> d[<<n, k>>], memo |-> d, err |-> FALSE, writes |-> <<>>]
    ELSE IF InvalidS(n, k) THEN [val |-> 0, memo |-> d, err |-> FALSE, writes |-> <<>>]
    ELSE IF n = 0 /\ k = 0 THEN [val |-> 1, memo |-> d, err |-> FALSE, writes |-> <<>>]
    ELSE LET r1 == assoc_stirling(n - 1, k, d, depth + 1)
             r2 == assoc_stirling(n - 2, k - 1, r1.memo, depth + 1)
             result == k * r1.val + (n - 1) * r2.val
         IN IF r1.err THEN r1
            ELSE IF r2.err THEN [r2 EXCEPT !.writes = r1.writes \o @]
            ELSE [val |-> result, memo |-> (<<n, k>> :> result) @@ r2.memo,
                  err |-> FALSE, writes |-> r1.writes \o r2.writes \o <<<<n, k>>>>]

\* the loop of prob_r3_memo from k on: total and the dictionary after it
RECURSIVE prob_r3_memo_loop(_, _, _, _, _)
prob_r3_memo_loop(k, max_k, n, m, d) ==
    IF k > max_k THEN [val |-> 0, memo |-> d]
    ELSE LET s == assoc_stirling(n, k, d, 1)
             rest == prob_r3_memo_loop(k + 1, max_k, n, m, s.memo)
             t == IF s.val # 0 THEN binomial(m, k) * factorial(k) * s.val ELSE 0
         IN [val |-> t + rest.val, memo |-> rest.memo]

prob_r3_memo(m, n) ==
    Quotient(prob_r3_memo_loop(1, n \div 2, n, m, EmptyDict).val, m, n)

\* ---------------- sbp_r3_assoc_stirling_bottomup.py: assoc_stirling_bottomup
resultS(prev1, prev2, n, k) ==
      (IF k \in DOMAIN prev1 THEN k * prev1[k] ELSE 0)
    + (IF k - 1 \in DOMAIN prev2 THEN (n - 1) * prev2[k - 1] ELSE 0)

\* one iteration of the loop over n: the dictionary curr
currS(prev1, prev2, n) ==
    LET max_k == n \div 2
        kept == {k \in range(1, max_k + 1) :
                    ~(n < 2 * k) /\ resultS(prev1, prev2, n, k) # 0}
    IN [k \in kept |-> resultS(prev1, prev2, n, k)]

\* the loop of assoc_stirling_bottomup from n on: <<prev2, prev1>> after it
RECURSIVE assoc_stirling_bottomup_loop(_, _, _, _)
assoc_stirling_bottomup_loop(n, n_target, prev2, prev1) ==
    IF n > n_target THEN <<prev2, prev1>>
    ELSE assoc_stirling_bottomup_loop(n + 1, n_target, prev1, currS(prev1, prev2, n))

\* assoc_stirling_bottomup(n_target), n_target >= 0
assoc_stirling_bottomup(n_target) ==
    IF n_target = 0 THEN 0 :> 1
    ELSE LET after == assoc_stirling_bottomup_loop(2, n_target, 0 :> 1, EmptyDict)
         IN IF n_target >= 2 THEN after[2] ELSE after[1]

prob_r3_bottomup(m, n) ==
    LET stirling_values == assoc_stirling_bottomup(n)
        total == SumOver([k \in {i \in range(1, n \div 2 + 1) : i \in DOMAIN stirling_values}
                            |-> binomial(m, k) * factorial(k) * stirling_values[k]])
    IN Quotient(total, m, n)

\* ------------------------- sbp_r2_recurrence_bottomup_float.py: P_bottomup
\* A float v of layer n is held as the integer x with v = x / m^n, so that
\* "result *= m_inv" is the step from layer n-1 to layer n. Of the rounding
\* of binary64 only the underflow is modelled: a result of at most half the
\* smallest positive float becomes 0.0.
underflows(x, n, m) == x * power(2, FloatMinExp + 1) <= power(m, n)

\* (m-j-k+2) written for (m-j-k+1): a mutant of resultP
resultPWeightOff(prev, j, k, m) ==
      (IF <<j, k>> \in DOMAIN prev THEN j * prev[<<j, k>>] ELSE 0)
    + (IF j > 0 /\ <<j - 1, k + 1>> \in DOMAIN prev
          THEN (k + 1) * prev[<<j - 1, k + 1>>] ELSE 0)
    + (IF k > 0 /\ <<j, k - 1>> \in DOMAIN prev
          THEN (m - j - k + 2) * prev[<<j, k - 1>>] ELSE 0)

\* the three terms added up for one (j, k), before "result *= m_inv"
resultP(prev, j, k, m) ==
      (IF <<j, k>> \in DOMAIN prev THEN j * prev[<<j, k>>] ELSE 0)
    + (IF j > 0 /\ <<j - 1, k + 1>> \in DOMAIN prev
          THEN (k + 1) * prev[<<j - 1, k + 1>>] ELSE 0)
    + (IF k > 0 /\ <<j, k - 1>> \in DOMAIN prev
          THEN (m - j - k + 1) * prev[<<j, k - 1>>] ELSE 0)

\* the (j, k) the loops of layer n reach past the validity check
reachedP(n, m) ==
    {p \in range(0, n \div 2 + 1) \X range(0, min(n, m) + 1) : ~(n < 2 * p[1] + p[2])}

\* one iteration of the loop over n: the dictionary curr built from prev
currP(prev, n, m) ==
    LET kept == {p \in reachedP(n, m) :
                    /\ resultP(prev, p[1], p[2], m) # 0
                    /\ ~underflows(resultP(prev, p[1], p[2], m), n, m)}
    IN [p \in kept |-> resultP(prev, p[1], p[2], m)]

\* some result of layer n was not zero and became 0.0
underflowP(prev, n, m) ==
    \E p \in reachedP(n, m) :
        /\ resultP(prev, p[1], p[2], m) # 0
        /\ underflows(resultP(prev, p[1], p[2], m), n, m)

\* ------------------------------------------------------------------ state
\* frame.writes of prob_r1 and prob_r3_memo: the keys assigned in the memo
\* since the top-level call began, in the order of the assignments
Idle == [fn |-> "none"]
NoResult == [fn |-> "none", args |-> <<>>, out |-> [kind |-> "none"]]
Value(v) == [kind |-> "value", num |-> v, den |-> 1]

Init ==
    /\ loaded = "none"
    /\ dps = LibraryDefaultDps
    /\ memo = EmptyDict
    /\ frame = Idle
    /\ res = NoResult

\* import of a module: its top-level statements run
Load(mod) ==
    /\ loaded = "none"
    /\ loaded' = mod
    /\ dps' = IF mod \in Modules \ {"sbp_r3_assoc_stirling_bottomup"} THEN DPS ELSE dps
    /\ UNCHANGED <<memo, frame, res>>

\* prob(m, n, k). Left out: m = 0 (a division by zero inside mpmath) and
\* k < 0 with a summation range that is not empty (mpmath's binomial and
\* factorial of negative integers decide the outcome, and they are not part
\* of this repository).
CallProb(m, n, k) ==
    /\ loaded = "sbp_implementation"
    /\ frame = Idle
    /\ m # 0
    /\ (k < 0 => range(k, n + 1) = {})
    /\ res' = [fn |-> "prob", args |-> <<m, n, k>>, out |-> prob(m, n, k)]
    /\ UNCHANGED <<loaded, dps, memo, frame>>

\* T(j, k, n, m): memo is None, so the call allocates its own dictionary
CallT(j, k, n, m) ==
    /\ loaded = "sbp_r1_recurrence_memoization"
    /\ frame = Idle
    /\ LET r == T(j, k, n, m, EmptyDict)
       IN /\ memo' = r.memo
          /\ res' = [fn |-> "T", args |-> <<j, k, n, m>>, out |-> Value(r.val)]
    /\ UNCHANGED <<loaded, dps, frame>>

\* prob_r1(m, n) up to its loop: memo = {}, N = 0, max_j = n // 2
ProbR1Start(m, n) ==
    /\ loaded = "sbp_r1_recurrence_memoization"
    /\ frame = Idle
    /\ memo' = EmptyDict
    /\ frame' = [fn |-> "prob_r1", m |-> m, n_int |-> n, N |-> 0,
                 max_j |-> n \div 2, j |-> 1, key |-> <<>>, term |-> 0,
                 writes |-> <<>>]
    /\ res' = NoResult
    /\ UNCHANGED <<loaded, dps>>

\* one iteration of the loop of prob_r1: term = T(j, 0, n_int, m, memo)
ProbR1Step ==
    /\ frame.fn = "prob_r1"
    /\ frame.j <= frame.max_j
    /\ LET r == T(frame.j, 0, frame.n_int, frame.m, memo)
       IN /\ memo' = r.memo
          /\ frame' = [frame EXCEPT !.N = @ + r.val, !.j = @ + 1, !.term = r.val,
                                    !.key = <<frame.j, 0, frame.n_int, frame.m>>,
                                    !.writes = @ \o r.writes]
    /\ UNCHANGED <<loaded, dps, res>>

\* the loop of prob_r1 is over: result = N / power(m, n_int)
ProbR1Return ==
    /\ frame.fn = "prob_r1"
    /\ frame.j > frame.max_j
    /\ res' = [fn |-> "prob_r1", args |-> <<frame.m, frame.n_int>>,
               out |-> Quotient(frame.N, frame.m, frame.n_int)]
    /\ frame' = Idle
    /\ UNCHANGED <<loaded, dps, memo>>

\* T_bottomup(n_target, m) up to its loop: prev = {(0, 0): 1}, curr = {}
TBottomupStart(n_target, m) ==
    /\ loaded = "sbp_r1_recurrence_bottomup"
    /\ frame = Idle
    /\ frame' = [fn |-> "T_bottomup", n_target |-> n_target, m_int |-> m,
                 n |-> 1, prev |-> <<0, 0>> :> 1, curr |-> EmptyDict]
    /\ res' = NoResult
    /\ UNCHANGED <<loaded, dps, memo>>

\* one iteration of the loop over n, ending with prev = curr
TBottomupLayer ==
    /\ frame.fn = "T_bottomup"
    /\ frame.n <= frame.n_target
    /\ LET c == currT(frame.prev, frame.n, frame.m_int)
       IN frame' = [frame EXCEPT !.curr = c, !.prev = c, !.n = @ + 1]
    /\ UNCHANGED <<loaded, dps, memo, res>>

\* return curr
TBottomupReturn ==
    /\ frame.fn = "T_bottomup"
    /\ frame.n > frame.n_target
    /\ res' = [fn |-> "T_bottomup", args |-> <<frame.n_target, frame.m_int>>,
               out |-> [kind |-> "dict", dict |-> frame.curr]]
    /\ frame' = Idle
    /\ UNCHANGED <<loaded, dps, memo>>

CallProbR1Bottomup(m, n) ==
    /\ loaded = "sbp_r1_recurrence_bottomup"
    /\ frame = Idle
    /\ res' = [fn |-> "prob_r1_bottomup", args |-> <<m, n>>,
               out |-> prob_r1_bottomup(m, n)]
    /\ UNCHANGED <<loaded, dps, memo, frame>>

\* assoc_stirling(n, k, memo) with memo = {}
CallS(n, k) ==
    /\ loaded = "sbp_r3_assoc_stirling_memoization"
    /\ frame = Idle
    /\ LET r == assoc_stirling(n, k, EmptyDict, 1)
       IN /\ memo' = r.memo
          /\ res' = [fn |-> "assoc_stirling", args |-> <<n, k>>,
                     out |-> IF r.err THEN [kind |-> "RecursionError"]
                                      ELSE Value(r.val)]
    /\ UNCHANGED <<loaded, dps, frame>>

\* prob_r3_memo(m, n) up to its loop: memo = {}, total = 0, max_k = n // 2
ProbR3MemoStart(m, n) ==
    /\ loaded = "sbp_r3_assoc_stirling_memoization"
    /\ frame = Idle
    /\ memo' = EmptyDict
    /\ frame' = [fn |-> "prob_r3_memo", m |-> m, n |-> n, total |-> 0,
                 max_k |-> n \div 2, k |-> 1, key |-> <<>>, stirling_val |-> 0,
                 writes |-> <<>>]
    /\ res' = NoResult
    /\ UNCHANGED <<loaded, dps>>

\* one iteration of the loop of prob_r3_memo
ProbR3MemoStep ==
    /\ frame.fn = "prob_r3_memo"
    /\ frame.k <= frame.max_k
    /\ LET r == assoc_stirling(frame.n, frame.k, memo, 1)
           t == IF r.val # 0
                   THEN binomial(frame.m, frame.k) * factorial(frame.k) * r.val
                   ELSE 0
       IN /\ memo' = r.memo
          /\ frame' = [frame EXCEPT !.total = @ + t, !.k = @ + 1,
                                    !.stirling_val = r.val,
                                    !.key = <<frame.n, frame.k>>,
                                    !.writes = @ \o r.writes]
    /\ UNCHANGED <<loaded, dps, res>>

\* prob = total / power(mpf(m), n)
ProbR3MemoReturn ==
    /\ frame.fn = "prob_r3_memo"
    /\ frame.k > frame.max_k
    /\ res' = [fn |-> "prob_r3_memo", args |-> <<frame.m, frame.n>>,
               out |-> Quotient(frame.total, frame.m, frame.n)]
    /\ frame' = Idle
    /\ UNCHANGED <<loaded, dps, memo>>

\* assoc_stirling_bottomup(n_target) up to its loop, n_target >= 1
SBottomupStart(n_target) ==
    /\ loaded = "sbp_r3_assoc_stirling_bottomup"
    /\ frame = Idle
    /\ n_target # 0
    /\ frame' = [fn |-> "assoc_stirling_bottomup", n_target |-> n_target,
                 n |-> 2, prev2 |-> 0 :> 1, prev1 |-> EmptyDict]
    /\ res' = NoResult
    /\ UNCHANGED <<loaded, dps, memo>>

\* one iteration of the loop over n, ending with prev2 = prev1, prev1 = curr
SBottomupLayer ==
    /\ frame.fn = "assoc_stirling_bottomup"
    /\ frame.n <= frame.n_target
    /\ frame' = [frame EXCEPT !.prev2 = frame.prev1,
                              !.prev1 = currS(frame.prev1, frame.prev2, frame.n),
                              !.n = @ + 1]
    /\ UNCHANGED <<loaded, dps, memo, res>>

\* return prev1 if n_target >= 2 else prev2
SBottomupReturn ==
    /\ frame.fn = "assoc_stirling_bottomup"
    /\ frame.n > frame.n_target
    /\ res' = [fn |-> "assoc_stirling_bottomup", args |-> <<frame.n_target>>,
               out |-> [kind |-> "dict",
                        dict |-> IF frame.n_target >= 2 THEN frame.prev1
                                                        ELSE frame.prev2]]
    /\ frame' = Idle
    /\ UNCHANGED <<loaded, dps, memo>>

\* assoc_stirling_bottomup(0): the early return {0: mpf(1)}
SBottomupZero ==
    /\ loaded = "sbp_r3_assoc_stirling_bottomup"
    /\ frame = Idle
    /\ res' = [fn |-> "assoc_stirling_bottomup", args |-> <<0>>,
               out |-> [kind |-> "dict", dict |-> 0 :> 1]]
    /\ UNCHANGED <<loaded, dps, memo, frame>>

CallProbR3Bottomup(m, n) ==
    /\ loaded = "sbp_r3_assoc_stirling_bottomup"
    /\ frame = Idle
    /\ res' = [fn |-> "prob_r3_bottomup", args |-> <<m, n>>,
               out |-> prob_r3_bottomup(m, n)]
    /\ UNCHANGED <<loaded, dps, memo, frame>>

\* P_bottomup(n_target, m) up to its loop: prev = {(0, 0): 1.0}, curr = {};
\* underflow records whether a result has become 0.0 by underflow
PBottomupStart(n_target, m) ==
    /\ loaded = "sbp_r2_recurrence_bottomup_float"
    /\ frame = Idle
    /\ frame' = [fn |-> "P_bottomup", n_target |-> n_target, m |-> m,
                 n |-> 1, prev |-> <<0, 0>> :> 1, curr |-> EmptyDict,
                 underflow |-> FALSE]
    /\ res' = NoResult
    /\ UNCHANGED <<loaded, dps, memo>>

\* one iteration of the loop over n, ending with prev = curr
PBottomupLayer ==
    /\ frame.fn = "P_bottomup"
    /\ frame.n <= frame.n_target
    /\ LET c == currP(frame.prev, frame.n, frame.m)
       IN frame' = [frame EXCEPT !.curr = c, !.prev = c, !.n = @ + 1,
                       !.underflow = @ \/ underflowP(frame.prev, frame.n, frame.m)]
    /\ UNCHANGED <<loaded, dps, memo, res>>

\* return curr
PBottomupReturn ==
    /\ frame.fn = "P_bottomup"
    /\ frame.n > frame.n_target
    /\ res' = [fn |-> "P_bottomup", args |-> <<frame.n_target, frame.m>>,
               out |-> [kind |-> "dict", dict |-> frame.curr]]
    /\ frame' = Idle
    /\ UNCHANGED <<loaded, dps, memo>>

Next ==
    \/ \E mod \in Modules \cup FloatModules : Load(mod)
    \/ \E m \in (0 - 1) .. MaxM, n \in (0 - 2) .. MaxN, k \in (0 - 1) .. (MaxN + 1) :
          CallProb(m, n, k)
    \/ \E j \in (0 - 1) .. (MaxN \div 2), k \in (0 - 1) .. MaxN,
          n \in (0 - 1) .. MaxN, m \in (0 - 1) .. MaxM : CallT(j, k, n, m)
    \/ \E m \in 1 .. MaxM, n \in 0 .. MaxN : ProbR1Start(m, n)
    \/ ProbR1Step
    \/ ProbR1Return
    \/ \E n_target \in 0 .. MaxN, m \in 0 .. MaxM : TBottomupStart(n_target, m)
    \/ TBottomupLayer
    \/ TBottomupReturn
    \/ \E m \in 1 .. MaxM, n \in 0 .. MaxN : CallProbR1Bottomup(m, n)
    \/ \E n \in (0 - 2) .. MaxN, k \in (0 - 2) .. (MaxN \div 2 + 1) : CallS(n, k)
    \/ \E m \in 1 .. MaxM, n \in 0 .. MaxN : ProbR3MemoStart(m, n)
    \/ ProbR3MemoStep
    \/ ProbR3MemoReturn
    \/ \E n_target \in 1 .. MaxN : SBottomupStart(n_target)
    \/ SBottomupLayer
    \/ SBottomupReturn
    \/ SBottomupZero
    \/ \E m \in 1 .. MaxM, n \in 0 .. MaxN : CallProbR3Bottomup(m, n)
    \/ \E n_target \in 0 .. MaxN, m \in 1 .. MaxM : PBottomupStart(n_target, m)
    \/ PBottomupLayer
    \/ PBottomupReturn

Spec == Init /\ [][Next]_vars
\* ================================================================ claims
ProbFns == {"prob", "prob_r1", "prob_r1_bottomup", "prob_r3_memo", "prob_r3_bottomup"}

\* res is what a probability function returned for m >= 1, n >= 0 (and k = 0)
ProbReturned ==
    /\ res.fn \in ProbFns
    /\ res.args[1] >= 1
    /\ res.args[2] >= 0
    /\ (res.fn = "prob" => res.args[3] = 0)

\* how many people the assignment f puts on day d
Occupancy(f, d) == Cardinality({i \in DOMAIN f : f[i] = d})

\* the assignments of n people to m days
Assignments(m, n) == [1 .. n -> 1 .. m]

\* the assignments in which no day receives exactly one person
StrongCount(m, n) ==
    Cardinality({f \in Assignments(m, n) : \A d \in 1 .. m : Occupancy(f, d) # 1})

\* the assignments with exactly j days of two or more and exactly k days of one
OccupancyCount(j, k, n, m) ==
    Cardinality({f \in Assignments(m, n) :
        /\ Cardinality({d \in 1 .. m : Occupancy(f, d) >= 2}) = j
        /\ Cardinality({d \in 1 .. m : Occupancy(f, d) = 1}) = k})

\* the validity predicates as sections 4.2 and 4.3 of the specification state them
StructurallyZeroT(j, k, n, m) == j < 0 \/ k < 0 \/ n < 2 * j + k \/ m < j + k
StructurallyZeroS(n, k) == (n <= 0 /\ k > 0) \/ (n > 0 /\ k <= 0) \/ n < 2 * k

\* C1: for m >= 1 and n >= 0 the five arbitrary-precision variants return the
\* same probability: whatever one of them returned has the numerator and the
\* denominator each of the five computes for the same (m, n).
C1_FiveVariantsAgree ==
    ProbReturned =>
        LET m == res.args[1]
            n == res.args[2]
        IN /\ res.out = prob(m, n, 0)
           /\ res.out = prob_r1(m, n)
           /\ res.out = prob_r1_bottomup(m, n)
           /\ res.out = prob_r3_memo(m, n)
           /\ res.out = prob_r3_bottomup(m, n)

\* the same for n >= 1 alone
FiveVariantsAgreeFromOne ==
    (ProbReturned /\ res.args[2] >= 1) =>
        LET m == res.args[1]
            n == res.args[2]
        IN /\ res.out = prob(m, n, 0)
           /\ res.out = prob_r1(m, n)
           /\ res.out = prob_r1_bottomup(m, n)
           /\ res.out = prob_r3_memo(m, n)
           /\ res.out = prob_r3_bottomup(m, n)

\* C2: for m >= 1 every probability function called with n = 0 returns exactly 1.
C2_ZeroPeopleGivesOne ==
    (ProbReturned /\ res.args[2] = 0) => res.out.num = res.out.den

\* C3: for m >= 1 every probability function called with n = 1 returns exactly 0.
C3_OnePersonGivesZero ==
    (ProbReturned /\ res.args[2] = 1) => (res.out.kind = "value" /\ res.out.num = 0)

C3_Witness ==
    /\ res.fn = "prob"
    /\ res.args = <<3, 1, 0>>
    /\ res.out.num = 0
    /\ res.out.den = 3

\* C4: for m >= 1, n >= 0 and k = 0 the alternating sum of the direct formula
\* is the number of assignments of n people to m days in which no day receives
\* exactly one person, and it is divided by m^n.
C4_DirectFormulaCounts ==
    (ProbReturned /\ res.fn = "prob") =>
        /\ res.out.num = StrongCount(res.args[1], res.args[2])
        /\ res.out.den = Cardinality(Assignments(res.args[1], res.args[2]))

C4_Witness ==
    /\ res.fn = "prob"
    /\ res.args = <<3, 4, 0>>
    /\ res.out.num = 21
    /\ res.out.den = 81

\* C5: prob(m, n, k) with negative m, negative n or k outside [0, n] ends in an
\* invalid-argument error; it never returns a number.
C5_InvalidInputRejected ==
    (/\ res.fn = "prob"
     /\ (res.args[1] < 0 \/ res.args[2] < 0 \/ res.args[3] < 0
            \/ res.args[3] > res.args[2]))
        => res.out.kind # "value"

\* C6: for m >= 1 and n >= 0 every probability function returns a value in
\* [0, 1]: 0 <= numerator <= m^n.
C6_ProbabilityInUnitInterval ==
    ProbReturned =>
        /\ res.out.kind = "value"
        /\ res.out.den = power(res.args[1], res.args[2])
        /\ 0 <= res.out.num
        /\ res.out.num <= res.out.den

C6_Witness ==
    /\ res.fn = "prob_r3_memo"
    /\ res.args = <<2, 4>>
    /\ res.out.num = 8
    /\ res.out.den = 16

\* C7: for j, k, n, m >= 0 the memoized T(j, k, n, m) is the number of ways to
\* place n distinguishable items into m labelled slots with exactly j slots of
\* two or more items and exactly k slots of one item; T(0, 0, 0, m) = 1.
C7_TCountsOccupancies ==
    (res.fn = "T" /\ \A i \in 1 .. 4 : res.args[i] >= 0) =>
        /\ res.out.num = OccupancyCount(res.args[1], res.args[2], res.args[3], res.args[4])
        /\ (res.args[1] = 0 /\ res.args[2] = 0 /\ res.args[3] = 0 => res.out.num = 1)

C7_Witness ==
    /\ res.fn = "T"
    /\ res.args = <<1, 1, 3, 2>>
    /\ res.out.num = 6
    /\ <<1, 1, 3, 2>> \in DOMAIN memo

\* C8: for m >= 1, every target n >= 0 and every (j, k) passing the validity
\* predicate, the dictionary T_bottomup(n, m) returns, absent keys counting as
\* 0, gives the value of the top-down T(j, k, n, m); it gives 1 for (0, 0) at
\* n = 0.
C8_BottomUpEqualsTopDown ==
    (res.fn = "T_bottomup" /\ res.args[1] >= 0 /\ res.args[2] >= 1) =>
        LET n == res.args[1]
            m == res.args[2]
        IN \A j \in 0 .. n, k \in 0 .. n :
              ~StructurallyZeroT(j, k, n, m) =>
                  Get(res.out.dict, <<j, k>>) = T(j, k, n, m, EmptyDict).val

\* the same for the targets n >= 1 alone
TBottomupEqualsTopDownFromOne ==
    (res.fn = "T_bottomup" /\ res.args[1] >= 1 /\ res.args[2] >= 1) =>
        LET n == res.args[1]
            m == res.args[2]
        IN \A j \in 0 .. n, k \in 0 .. n :
              ~StructurallyZeroT(j, k, n, m) =>
                  Get(res.out.dict, <<j, k>>) = T(j, k, n, m, EmptyDict).val

\* C9: for n_target >= 0 every key k of the dictionary
\* assoc_stirling_bottomup(n_target) returns maps to the value
\* assoc_stirling(n_target, k) computes, and every k >= 0 it omits has
\* S(n_target, k) = 0.
C9_StirlingBottomUpRow ==
    (res.fn = "assoc_stirling_bottomup" /\ res.args[1] >= 0) =>
        LET n == res.args[1]
            S(k) == assoc_stirling(n, k, EmptyDict, 1).val
        IN /\ \A k \in DOMAIN res.out.dict : res.out.dict[k] = S(k)
           /\ \A k \in (0 .. n + 1) \ DOMAIN res.out.dict : S(k) = 0

\* the same for the targets n_target # 1
SBottomupRowExceptOne ==
    (res.fn = "assoc_stirling_bottomup" /\ res.args[1] >= 0 /\ res.args[1] # 1) =>
        LET n == res.args[1]
            S(k) == assoc_stirling(n, k, EmptyDict, 1).val
        IN /\ \A k \in DOMAIN res.out.dict : res.out.dict[k] = S(k)
           /\ \A k \in (0 .. n + 1) \ DOMAIN res.out.dict : S(k) = 0

\* the key failed the validity predicate of the function that was called
FailedKey(fn, key) ==
    IF fn \in {"T", "prob_r1"}
        THEN StructurallyZeroT(key[1], key[2], key[3], key[4])
        ELSE StructurallyZeroS(key[1], key[2])

\* no key of the memo fails the validity predicate
MemoHoldsValidKeysOnly ==
    \A key \in DOMAIN memo :
        IF Len(key) = 4 THEN ~StructurallyZeroT(key[1], key[2], key[3], key[4])
                        ELSE ~StructurallyZeroS(key[1], key[2])

\* a finished call of T or assoc_stirling on a failing key returned 0 and
\* left its (empty) dictionary empty
FailedCallReturnedZero ==
    (res.fn \in {"T", "assoc_stirling"} /\ FailedKey(res.fn, res.args)) =>
        (res.out = Value(0) /\ memo = EmptyDict)

\* no layer of T_bottomup holds a (j, k) with n < 2j+k or m < j+k, n being the
\* layer's own n
LayersHoldValidKeysOnly ==
    frame.fn = "T_bottomup" =>
        \A p \in DOMAIN frame.prev \cup DOMAIN frame.curr :
            ~StructurallyZeroT(p[1], p[2], frame.n - 1, frame.m_int)

\* an iteration of prob_r1 or prob_r3_memo that called on a failing key got 0
\* and left the memo as it was
FailedStepLeavesMemo ==
    (/\ frame'.fn \in {"prob_r1", "prob_r3_memo"}
     /\ frame.fn = frame'.fn
     /\ FailedKey(frame'.fn, frame'.key))
        => /\ memo' = memo
           /\ (frame'.fn = "prob_r1" => frame'.term = 0)
           /\ (frame'.fn = "prob_r3_memo" => frame'.stirling_val = 0)

\* C10: a state key failing the validity predicate evaluates to 0 and is never
\* stored: the memo never holds such a key, a call on such a key returns 0 and
\* leaves the memo unchanged, and no layer built by T_bottomup holds a (j, k)
\* with n < 2j+k or m < j+k.
C10_InvalidKeysNeverStored ==
    /\ [](MemoHoldsValidKeysOnly /\ FailedCallReturnedZero /\ LayersHoldValidKeysOnly)
    /\ [][FailedStepLeavesMemo]_vars

\* prob_r1(1, 4) has called T(2, 0, 4, 1), which fails m < j+k, on the memo
\* that T(1, 0, 4, 1) filled
C10_Witness ==
    /\ frame.fn = "prob_r1"
    /\ frame.key = <<2, 0, 4, 1>>
    /\ frame.term = 0
    /\ <<1, 0, 4, 1>> \in DOMAIN memo
    /\ <<2, 0, 4, 1>> \notin DOMAIN memo
\* the keys assigned since the running prob_r1 or prob_r3_memo began are
\* pairwise different, and they are the keys of the memo
EachKeyAssignedOnce ==
    frame.fn \in {"prob_r1", "prob_r3_memo"} =>
        /\ \A a, b \in 1 .. Len(frame.writes) :
              frame.writes[a] = frame.writes[b] => a = b
        /\ {frame.writes[a] : a \in 1 .. Len(frame.writes)} = DOMAIN memo

\* an iteration of the running call keeps every entry of the memo as it is
EntriesKept ==
    (frame.fn \in {"prob_r1", "prob_r3_memo"} /\ frame'.fn = frame.fn) =>
        \A key \in DOMAIN memo : key \in DOMAIN memo' /\ memo'[key] = memo[key]

\* C11: during one top-level call of prob_r1 or prob_r3_memo every memo key is
\* assigned at most once: a value, once set, never changes, and the recurrence
\* body of a key (which ends in the assignment) is never executed again.
C11_MemoWriteOnce ==
    /\ []EachKeyAssignedOnce
    /\ [][EntriesKept]_vars

\* prob_r1(3, 4) has run both iterations: the second one met keys the first
\* one had stored, and the stored keys were assigned once each
C11_Witness ==
    /\ frame.fn = "prob_r1"
    /\ frame.m = 3
    /\ frame.n_int = 4
    /\ frame.j = 3
    /\ Len(frame.writes) = Cardinality(DOMAIN memo)
    /\ <<1, 0, 2, 3>> \in DOMAIN memo
    /\ <<2, 0, 4, 3>> \in DOMAIN memo
\* C12: every arbitrary-precision module, loaded and run on its own, has set
\* mp.dps to 1000 before its first computation, and mp.dps is 1000 throughout.
C12_PrecisionIsThousand ==
    (loaded \in Modules /\ (frame # Idle \/ res # NoResult)) => dps = DPS

\* the same for the modules other than sbp_r3_assoc_stirling_bottomup
PrecisionIsThousandExceptR3Bottomup ==
    (loaded \in Modules \ {"sbp_r3_assoc_stirling_bottomup"}) => dps = DPS
\* the keys of layer n of T_bottomup: of the base case for n = 0, of curr after
\* n iterations otherwise
TLayerKeys(n, m) == IF n = 0 THEN {<<0, 0>>} ELSE DOMAIN T_bottomup(n, m)

\* every key stored in a layer of P_bottomup satisfies j + k <= m
PLayersWithinDays ==
    frame.fn = "P_bottomup" =>
        \A p \in DOMAIN frame.prev \cup DOMAIN frame.curr : p[1] + p[2] <= frame.m

\* C13 as stated: every key stored in a layer of P_bottomup satisfies
\* j + k <= m, and each layer holds exactly the key set of the corresponding
\* T_bottomup layer.
C13_SameKeysAsTBottomup ==
    frame.fn = "P_bottomup" =>
        /\ \A p \in DOMAIN frame.prev \cup DOMAIN frame.curr : p[1] + p[2] <= frame.m
        /\ DOMAIN frame.prev = TLayerKeys(frame.n - 1, frame.m)

\* C13 as amended: every key stored in a layer of P_bottomup satisfies
\* j + k <= m, each layer's key set is contained in the key set of the
\* corresponding T_bottomup layer, and the two are equal as long as no result
\* has underflowed to 0.0.
C13_KeysWithinTBottomup ==
    frame.fn = "P_bottomup" =>
        /\ PLayersWithinDays
        /\ DOMAIN frame.prev \subseteq TLayerKeys(frame.n - 1, frame.m)
        /\ (~frame.underflow => DOMAIN frame.prev = TLayerKeys(frame.n - 1, frame.m))

\* P_bottomup(3, 1) has built layer 3, where (1, 1), with j + k = m + 1, passed
\* the check n < 2j+k, got 0 * prev[(1, 0)] = 0.0 and was dropped
C13_Witness ==
    /\ frame.fn = "P_bottomup"
    /\ frame.m = 1
    /\ frame.n = 4
    /\ <<1, 1>> \in reachedP(3, 1)
    /\ DOMAIN frame.prev = {<<1, 0>>}
    /\ ~frame.underflow
\* C14: for every pair of integers (n, k) a call assoc_stirling(n, k, memo)
\* with an empty memo terminates and returns a value, and so does
\* T(j, k, n, m, memo) for all integers j, k, n, m.
C14_CallsReturnValue ==
    res.fn \in {"assoc_stirling", "T"} => res.out.kind = "value"

\* the same for T alone, and for assoc_stirling outside n <= 0, k < 0, n >= 2k
CallsReturnValueOutsideNegativeRegion ==
    (\/ res.fn = "T"
     \/ /\ res.fn = "assoc_stirling"
        /\ ~(res.args[1] <= 0 /\ res.args[2] < 0 /\ res.args[1] >= 2 * res.args[2]))
        => res.out.kind = "value"
====
